---- MODULE Spec2Model ----
(***************************************************************************)
(* Claim-Polygraph: the claim verification pipeline.                       *)
(*                                                                         *)
(*   split_into_sentences, score_sentences, top_checkworthy_sentences      *)
(*       src/claim_processing/claim_worthiness.py                          *)
(*   check_worth_paragraph, extract_claims                                 *)
(*       src/claim_processing/claim_extraction.py                          *)
(*   search_fact_checks                                                    *)
(*       src/google_fact_check/claim_search_google_api.py                  *)
(*   fact_check         src/llm_as_fact_checker/llm_fact_checker.py        *)
(*   index              src/app.py                                         *)
(*                                                                         *)
(* A Python str is a sequence of one-character strings.  A float score is  *)
(* an integer number of tenths (0.5 is 5).                                 *)
(***************************************************************************)
EXTENDS Integers, Sequences, FiniteSets, TLC

VARIABLES
    seg,    \* a call of split_into_sentences: its position and locals
    rank,   \* a call of top_checkworthy_sentences: its position and locals
    run,    \* a request handled by index: its position and locals
    net,    \* the requests made to the collaborators so far
    look    \* a call of search_fact_checks: its position and locals

vars == << seg, rank, run, net, look >>

(***************************************************************************)
(* Bounds                                                                  *)
(***************************************************************************)
\* longest text handed to split_into_sentences in SpecSeg
MaxTextLen == 3
\* most elements of a scoring response in SpecRank
MaxItems == 3
\* largest top_k asked of top_checkworthy_sentences in SpecRank
MaxTopK == 3
\* most claims of a search response in SpecLook
MaxClaims == 2
\* most reviews of a claim of a search response in SpecLook
MaxReviews == 2

(***************************************************************************)
(* Characters and str methods                                              *)
(***************************************************************************)
\* the characters r'\s' matches, of the alphabet used here
WS == {" ", "\t"}
\* the characters r'[.!?]' matches
Delims == {".", "!", "?"}
Alphabet == {"a", "b"} \cup WS \cup Delims

RECURSIVE LStrip(_)
LStrip(s) == IF s # <<>> /\ Head(s) \in WS THEN LStrip(Tail(s)) ELSE s

RECURSIVE RStrip(_)
RStrip(s) ==
    IF s # <<>> /\ s[Len(s)] \in WS THEN RStrip(SubSeq(s, 1, Len(s) - 1)) ELSE s

\* str.strip()
Strip(s) == RStrip(LStrip(s))

\* re.sub(r'\s+', ' ', s): every maximal run of whitespace becomes one space
RECURSIVE CollapseWs(_)
CollapseWs(s) ==
    IF s = <<>> THEN <<>>
    ELSE IF Head(s) \in WS THEN <<" ">> \o CollapseWs(LStrip(s))
    ELSE <<Head(s)>> \o CollapseWs(Tail(s))

\* s.endswith(c) for a one-character c
EndsWith(s, c) == s # <<>> /\ s[Len(s)] = c

(***************************************************************************)
(* split_into_sentences                                                    *)
(***************************************************************************)
\* re.split(r'([.!?])', text): the texts between delimiters and, the pattern
\* being a group, the delimiters themselves; cur is the text since the last
\* delimiter
RECURSIVE ReSplit(_, _)
ReSplit(t, cur) ==
    IF t = <<>> THEN << cur >>
    ELSE IF Head(t) \in Delims
         THEN << cur, << Head(t) >> >> \o ReSplit(Tail(t), <<>>)
         ELSE ReSplit(Tail(t), Append(cur, Head(t)))

\* for i in range(0, len(parts) - 1, 2): s = (parts[i] + parts[i+1]).strip()
RECURSIVE PairUp(_, _)
PairUp(parts, i) ==
    IF i > Len(parts) - 1 THEN <<>>
    ELSE LET s == Strip(parts[i] \o parts[i + 1])
         IN  (IF s # <<>> THEN << s >> ELSE <<>>) \o PairUp(parts, i + 2)

\* the regex fallback, on the stripped text
RegexFallback(text) ==
    LET parts == ReSplit(text, <<>>)
        last  == Strip(parts[Len(parts)])
    IN  PairUp(parts, 1)
        \o (IF Len(parts) % 2 = 1 /\ last # <<>> THEN << last >> ELSE <<>>)

\* NormUnit without the rewrite of a trailing '!' or '?'
NormUnitAppendOnly(u) ==
    LET s == Strip(CollapseWs(u))
    IN  IF s = <<>> THEN <<>>
        ELSE IF EndsWith(s, ".") THEN << s >>
        ELSE << s \o << "." >> >>

\* one pass of the normalisation loop on one unit: <<>> when the unit is
\* skipped, else the one sentence appended to normed
NormUnit(u) ==
    LET s == Strip(CollapseWs(u))
    IN  IF s = <<>> THEN <<>>
        ELSE IF EndsWith(s, ".") THEN << s >>
        ELSE IF EndsWith(s, "!") \/ EndsWith(s, "?")
             THEN << SubSeq(s, 1, Len(s) - 1) \o << "." >> >>
             ELSE << s \o << "." >> >>

RECURSIVE Normalize(_)
Normalize(units) ==
    IF units = <<>> THEN <<>> ELSE NormUnit(Head(units)) \o Normalize(Tail(units))

\* what sent_tokenize may answer for a text: the text cut at any set of places
\* (each unit a slice of the text, in order); cuts is the set of cut positions
RECURSIVE CutAt(_, _, _)
CutAt(t, cuts, from) ==
    IF from > Len(t) THEN <<>>
    ELSE LET later == {c \in cuts : c >= from}
             to == IF later = {} THEN Len(t)
                   ELSE CHOOSE c \in later : \A d \in later : c <= d
         IN  << SubSeq(t, from, to) >> \o CutAt(t, cuts, to + 1)

Tokenizations(t) == { CutAt(t, cuts, 1) : cuts \in SUBSET (1 .. Len(t) - 1) }

\* split_into_sentences with the tokenizer's answer given: units = <<>> stands
\* for sent_tokenize raising or returning nothing
SentencesFrom(text, units) ==
    LET t == Strip(text)
    IN  IF t = <<>> THEN <<>>
        ELSE Normalize(IF units = <<>> THEN RegexFallback(t) ELSE units)

\* every result split_into_sentences can give for a text
SplitResults(text) ==
    { SentencesFrom(text, u) : u \in Tokenizations(Strip(text)) \cup { <<>> } }

(***************************************************************************)
(* split_into_sentences as a machine: seg.pc is its position               *)
(***************************************************************************)
RECURSIVE TextsUpTo(_)
TextsUpTo(n) ==
    IF n = 0 THEN { <<>> }
    ELSE LET shorter == TextsUpTo(n - 1)
         IN  shorter \cup { Append(t, c) : t \in {x \in shorter : Len(x) = n - 1},
                                            c \in Alphabet }

SegTexts == TextsUpTo(MaxTextLen)

SegCall(t) ==
    [pc |-> "strip", text |-> t, units |-> <<>>, fallback |-> FALSE, out |-> <<>>]

SegStart ==
    seg \in { SegCall(t) : t \in SegTexts }

\* text = text.strip(); if not text: return []
SegStrip ==
    /\ seg.pc = "strip"
    /\ LET t == Strip(seg.text)
       IN  seg' = [seg EXCEPT !.text = t,
                              !.pc = IF t = <<>> THEN "done" ELSE "tokenize"]
    /\ UNCHANGED << rank, run, net, look >>

\* sentences = sent_tokenize(text), which answers with units
SegTokenize ==
    /\ seg.pc = "tokenize"
    /\ \E u \in Tokenizations(seg.text) :
          seg' = [seg EXCEPT !.units = u, !.pc = "normalize"]
    /\ UNCHANGED << rank, run, net, look >>

\* sent_tokenize raises (or returns nothing): the regex fallback
SegFallback ==
    /\ seg.pc = "tokenize"
    /\ seg' = [seg EXCEPT !.units = RegexFallback(seg.text), !.fallback = TRUE,
                          !.pc = "normalize"]
    /\ UNCHANGED << rank, run, net, look >>

\* the normalisation loop and the return
SegNormalize ==
    /\ seg.pc = "normalize"
    /\ seg' = [seg EXCEPT !.out = Normalize(seg.units), !.pc = "done"]
    /\ UNCHANGED << rank, run, net, look >>

(***************************************************************************)
(* JSON values of a collaborator's response                                *)
(***************************************************************************)
\* a JSON value: t is its type, n its number, s its string, items its elements
JV(t, n, s, items) == [t |-> t, n |-> n, s |-> s, items |-> items]
\* None: a null, and what dict.get gives for a key that is missing
JNone == JV("null", 0, <<>>, <<>>)
JNum(n) == JV("num", n, <<>>, <<>>)
JStr(s) == JV("str", 0, s, <<>>)
JList(items) == JV("list", 0, <<>>, items)

\* bool(v)
Truthy(v) ==
    CASE v.t = "null" -> FALSE
      [] v.t = "num"  -> v.n # 0
      [] v.t = "str"  -> v.s # <<>>
      [] v.t = "list" -> v.items # <<>>
      [] OTHER        -> TRUE

\* a or b
PyOr(a, b) == IF Truthy(a) THEN a ELSE b

\* isinstance(v, (int, float))
IsNumber(v) == v.t = "num"

\* an element of a response list: a JSON object with the keys the scorer reads
\* (JNone for a key it lacks), or something that is not an object
Item(isdict, sentence, text, score, checkworthiness, value) ==
    [isdict |-> isdict, sentence |-> sentence, text |-> text, score |-> score,
     checkworthiness |-> checkworthiness, value |-> value]
NotAnObject == Item(FALSE, JNone, JNone, JNone, JNone, JNone)

\* the body of a scoring response
DataList(items) == [shape |-> "list", items |-> items, pairs |-> <<>>]
\* a JSON object, as its (key, value) pairs in order
DataDict(pairs) == [shape |-> "dict", items |-> <<>>, pairs |-> pairs]
\* a JSON scalar
DataOther == [shape |-> "other", items |-> <<>>, pairs |-> <<>>]

ResultsKey == << "r", "e", "s", "u", "l", "t", "s" >>

(***************************************************************************)
(* score_sentences                                                         *)
(***************************************************************************)
\* a scored sentence (sentence, float(score))
Scored(sent, score) == [sent |-> sent, score |-> score]

\* one pass of the loop over a response list: what is appended to results
ScoreItem(item) ==
    IF ~item.isdict THEN <<>>
    ELSE LET sent  == PyOr(PyOr(item.sentence, item.text), JStr(<<>>))
             score == PyOr(PyOr(item.score, item.checkworthiness), item.value)
         IN  IF Truthy(sent) /\ IsNumber(score)
             THEN << Scored(sent, score.n) >> ELSE <<>>

RECURSIVE ScoreItems(_)
ScoreItems(items) ==
    IF items = <<>> THEN <<>> ELSE ScoreItem(Head(items)) \o ScoreItems(Tail(items))

\* one pass of the loop over data.items(): a JSON key is always a str
ScorePair(p) ==
    IF IsNumber(p[2]) THEN << Scored(JStr(p[1]), p[2].n) >> ELSE <<>>

RECURSIVE ScorePairs(_)
ScorePairs(pairs) ==
    IF pairs = <<>> THEN <<>> ELSE ScorePair(Head(pairs)) \o ScorePairs(Tail(pairs))

\* "results" in data and isinstance(data["results"], list)
HasResultsList(pairs) ==
    \E i \in 1 .. Len(pairs) : pairs[i][1] = ResultsKey /\ pairs[i][2].t = "list"

ResultsOf(pairs) ==
    LET i == CHOOSE j \in 1 .. Len(pairs) : pairs[j][1] = ResultsKey
    IN  pairs[i][2].items

\* the normalisation of a successful response: the scored list, or the
\* SystemExit for a body that is neither a list nor an object
ScoreData(data) ==
    CASE data.shape = "list" -> [ok |-> TRUE, results |-> ScoreItems(data.items)]
      [] data.shape = "dict" ->
           [ok |-> TRUE,
            results |-> IF HasResultsList(data.pairs)
                        THEN ScoreItems(ResultsOf(data.pairs))
                        ELSE ScorePairs(data.pairs)]
      [] OTHER -> [ok |-> FALSE, results |-> <<>>]

(***************************************************************************)
(* top_checkworthy_sentences                                               *)
(***************************************************************************)
\* the threshold of the filter, in tenths
Threshold == 5

\* [item for item in scored if item[1] >= 0.5]
FilterWorthy(scored) == SelectSeq(scored, LAMBDA x : x.score >= Threshold)

\* InsertDesc with ties put first: an unstable sort
InsertDescTiesFirst(sorted, x) ==
    LET before == SelectSeq(sorted, LAMBDA y : y.score > x.score)
        after  == SelectSeq(sorted, LAMBDA y : y.score <= x.score)
    IN  before \o << x >> \o after

\* x put into a list sorted by score descending, after every element whose
\* score is not smaller: list.sort(key=score, reverse=True) keeps equal
\* elements in their original order
InsertDesc(sorted, x) ==
    LET before == SelectSeq(sorted, LAMBDA y : y.score >= x.score)
        after  == SelectSeq(sorted, LAMBDA y : y.score < x.score)
    IN  before \o << x >> \o after

RECURSIVE SortDesc(_)
SortDesc(scored) ==
    IF scored = <<>> THEN <<>>
    ELSE InsertDesc(SortDesc(SubSeq(scored, 1, Len(scored) - 1)),
                    scored[Len(scored)])

\* s[:k] of Python, k of either sign
PySlice(s, k) ==
    IF k >= 0 THEN SubSeq(s, 1, IF k < Len(s) THEN k ELSE Len(s))
    ELSE SubSeq(s, 1, Len(s) + k)

\* scored[:top_k], without the max
TruncateNoMax(scored, top_k) == PySlice(scored, top_k)

\* scored[:max(0, top_k)]
Truncate(scored, top_k) == PySlice(scored, IF top_k > 0 THEN top_k ELSE 0)

\* the last three lines of top_checkworthy_sentences
SelectTop(scored, top_k) == Truncate(SortDesc(FilterWorthy(scored)), top_k)

(***************************************************************************)
(* The scoring collaborator's responses                                    *)
(***************************************************************************)
SA == << "a", "." >>
SB == << "b", "." >>
SC == << "a", " ", "b", "." >>
NoDot == << "b" >>
NotANumber == JStr(<< "h", "i" >>)

\* {"sentence": ..., "score": ...}
Obj(sentence, score) == Item(TRUE, sentence, JNone, score, JNone, JNone)

ItemPool ==
    { Obj(JStr(SA), JNum(7)),
      Obj(JStr(SB), JNum(7)),
      Item(TRUE, JNone, JStr(SC), JNone, JNum(9), JNone),
      Item(TRUE, JStr(SA), JNone, JNone, JNone, JNum(5)),
      Obj(JStr(SB), JNum(4)),
      Obj(JStr(NoDot), JNum(15)),
      Obj(JStr(SB), JNum(0)),
      NotAnObject,
      Obj(JStr(SA), NotANumber),
      Obj(JNone, JNum(9)) }

PairPool ==
    { << SA, JNum(7) >>, << SB, JNum(7) >>, << SC, JNum(9) >>, << SB, JNum(4) >>,
      << SC, JNum(5) >>, << NoDot, JNum(15) >>, << <<>>, JNum(9) >>,
      << SA, JNum(0) >>, << SC, NotANumber >>, << SB, JNone >> }

RECURSIVE SeqsUpTo(_, _)
SeqsUpTo(S, n) ==
    IF n <= 0 THEN { <<>> }
    ELSE LET shorter == SeqsUpTo(S, n - 1)
         IN  shorter \cup { Append(q, x) : q \in {y \in shorter : Len(y) = n - 1},
                                            x \in S }

\* a JSON object has each key once
DistinctKeys(pairs) ==
    \A i, j \in 1 .. Len(pairs) : pairs[i][1] = pairs[j][1] => i = j

\* the bodies enumerated for a direct call of the scorer
DirectResponses ==
    { DataList(q) : q \in SeqsUpTo(ItemPool, MaxItems) }
    \cup { DataDict(q) : q \in {r \in SeqsUpTo(PairPool, MaxItems) : DistinctKeys(r)} }
    \cup { DataDict(<< << ResultsKey, JList(q) >> >>) :
              q \in SeqsUpTo(ItemPool, MaxItems - 1) }
    \cup { DataOther }

\* the bodies enumerated for the scorer called by index
IndexResponses ==
    { DataList(<< Obj(JStr(SA), JNum(7)), Obj(JStr(SB), JNum(9)) >>),
      DataList(<< Obj(JStr(SA), JNum(4)) >>),
      DataDict(<< << SB, JNum(7) >> >>),
      DataOther }

Responses(caller) == IF caller = "index" THEN IndexResponses ELSE DirectResponses

(***************************************************************************)
(* top_checkworthy_sentences as a machine: rank.pc is its position         *)
(***************************************************************************)
\* the SystemExit messages
MsgNoKey == "Please set CLAIMBUSTER_API_KEY env var or pass api_key argument."
MsgHttp == "ClaimBuster API error"
MsgFormat == "Unexpected API response format"
\* the message of a requests exception
MsgRequest == "RequestException"

\* the class raised for a non-success status: except requests.HTTPError as e:
\* raise SystemExit(...)
HttpErrorClass == "SystemExit"

\* the call top_checkworthy_sentences(text, api_key=None, top_k=top_k) begun;
\* posts counts the requests sent to the scoring collaborator so far
RankCall(caller, hasKey, text, top_k, posts) ==
    [pc |-> "key", caller |-> caller, hasKey |-> hasKey, text |-> text,
     top_k |-> top_k, sentences |-> <<>>, posts |-> posts, data |-> DataOther,
     scored |-> <<>>, out |-> <<>>, exc |-> "", exit |-> ""]

\* api_key = api_key or os.getenv(...); if not api_key: raise SystemExit
RankNoKey ==
    /\ rank.pc = "key"
    /\ ~rank.hasKey
    /\ rank' = [rank EXCEPT !.pc = "exit", !.exc = "SystemExit", !.exit = MsgNoKey]
    /\ UNCHANGED << seg, run, net, look >>

\* sentences = split_into_sentences(text), and score_sentences up to its
\* request: if not sentences: return []
RankSplit ==
    /\ rank.pc = "key"
    /\ rank.hasKey
    /\ \E s \in SplitResults(rank.text) :
          rank' = [rank EXCEPT !.sentences = s,
                               !.pc = IF s = <<>> THEN "select" ELSE "post"]
    /\ UNCHANGED << seg, run, net, look >>

\* the collaborator answers with a 4xx or 5xx status: raise_for_status,
\* and the SystemExit
RankHttpError ==
    /\ rank.pc = "post"
    /\ rank' = [rank EXCEPT !.posts = @ + 1, !.pc = "exit",
                            !.exc = HttpErrorClass, !.exit = MsgHttp]
    /\ UNCHANGED << seg, run, net, look >>

\* the collaborator does not answer within timeout=30, or cannot be reached:
\* requests.post raises a RequestException, which nothing here catches
RankTimeout ==
    /\ rank.pc = "post"
    /\ rank' = [rank EXCEPT !.posts = @ + 1, !.pc = "exit",
                            !.exc = "Exception", !.exit = MsgRequest]
    /\ UNCHANGED << seg, run, net, look >>

\* the collaborator answers with a body: the rest of score_sentences
RankRespond ==
    /\ rank.pc = "post"
    /\ \E data \in Responses(rank.caller) :
          LET r == ScoreData(data)
          IN  rank' = [rank EXCEPT !.posts = @ + 1, !.data = data,
                                   !.scored = r.results,
                                   !.pc = IF r.ok THEN "select" ELSE "exit",
                                   !.exc = IF r.ok THEN "" ELSE "SystemExit",
                                   !.exit = IF r.ok THEN "" ELSE MsgFormat]
    /\ UNCHANGED << seg, run, net, look >>

\* filter, sort, truncate and return
RankSelect ==
    /\ rank.pc = "select"
    /\ rank' = [rank EXCEPT !.out = SelectTop(rank.scored, rank.top_k),
                            !.pc = "done"]
    /\ UNCHANGED << seg, run, net, look >>

(***************************************************************************)
(* search_fact_checks                                                      *)
(***************************************************************************)
\* a key the JSON object lacks
JMissing == JV("missing", 0, <<>>, <<>>)
\* a dict of Python, as its keys in order
JDict(keys) == JV("dict", 0, <<>>, keys)

\* d.get(key, default), v being the value at the key or JMissing
GetOr(v, default) == IF v.t = "missing" THEN default ELSE v

NoClaimText == JStr(<< "N", "o", " ", "c", "l", "a", "i", "m", " ", "t", "e", "x", "t" >>)
UnknownDate == JStr(<< "U", "n", "k", "n", "o", "w", "n", " ", "d", "a", "t", "e" >>)
UnknownPublisher ==
    JStr(<< "U", "n", "k", "n", "o", "w", "n", " ", "p", "u", "b", "l", "i", "s", "h", "e", "r" >>)
NoTitle == JStr(<< "N", "o", " ", "t", "i", "t", "l", "e" >>)
NoURL == JStr(<< "N", "o", " ", "U", "R", "L" >>)
NoRating == JStr(<< "N", "o", " ", "r", "a", "t", "i", "n", "g" >>)

\* the "publisher" of a review: missing, null, or an object with its "name"
Publisher(t, name) == [t |-> t, name |-> name]
\* a review object
Review(publisher, title, url, textualRating) ==
    [publisher |-> publisher, title |-> title, url |-> url,
     textualRating |-> textualRating]
\* a "claimReview" or "claims" value: missing, null, or a list
Listing(t, items) == [t |-> t, items |-> items]
\* a claim object of the response
ClaimObj(text, claimDate, claimReview) ==
    [text |-> text, claimDate |-> claimDate, claimReview |-> claimReview]
\* a response of the search collaborator
SearchResponse(status, claims) == [status |-> status, claims |-> claims]

\* the record appended for one review of one claim
FactCheckRecord(claim, review) ==
    [claim     |-> GetOr(claim.text, NoClaimText),
     date      |-> GetOr(claim.claimDate, UnknownDate),
     publisher |-> IF review.publisher.t = "missing" THEN UnknownPublisher
                   ELSE GetOr(review.publisher.name, UnknownPublisher),
     title     |-> GetOr(review.title, NoTitle),
     url       |-> GetOr(review.url, NoURL),
     rating    |-> GetOr(review.textualRating, NoRating)]

\* the inner loop over claim.get("claimReview", [])
RECURSIVE ReviewRecords(_, _)
ReviewRecords(claim, reviews) ==
    IF reviews = <<>> THEN <<>>
    ELSE << FactCheckRecord(claim, Head(reviews)) >>
         \o ReviewRecords(claim, Tail(reviews))

\* the outer loop over data.get("claims", [])
RECURSIVE ClaimRecords(_)
ClaimRecords(claims) ==
    IF claims = <<>> THEN <<>>
    ELSE ReviewRecords(Head(claims), Head(claims).claimReview.items)
         \o ClaimRecords(Tail(claims))

\* what makes the loops raise: iterating a null, or None.get of a null publisher
SearchRaises(resp) ==
    \/ resp.claims.t = "null"
    \/ \E i \in 1 .. Len(resp.claims.items) :
          LET c == resp.claims.items[i]
          IN  \/ c.claimReview.t = "null"
              \/ \E j \in 1 .. Len(c.claimReview.items) :
                    c.claimReview.items[j].publisher.t = "null"

\* search_fact_checks on the collaborator's response: the records returned, or
\* ok = FALSE for the Exception raised
SearchFactChecks(resp) ==
    IF resp.status # 200 THEN [ok |-> FALSE, results |-> <<>>]
    ELSE IF SearchRaises(resp) THEN [ok |-> FALSE, results |-> <<>>]
    ELSE [ok |-> TRUE, results |-> ClaimRecords(resp.claims.items)]

\* the responses enumerated for the searches of index
TextT == JStr(<< "t" >>)
FullReview == Review(Publisher("dict", JStr(<< "p" >>)), TextT, JStr(<< "u" >>), JStr(<< "r" >>))
IndexSearchResponses ==
    { SearchResponse(500, Listing("missing", <<>>)),
      SearchResponse(200, Listing("missing", <<>>)),
      SearchResponse(200, Listing("list",
          << ClaimObj(TextT, JMissing, Listing("list", << FullReview >>)) >>)) }

(***************************************************************************)
(* search_fact_checks as a machine: look.pc is its position                *)
(***************************************************************************)
TextD == JStr(<< "d" >>)
\* a review with none of the keys read
BareReview == Review(Publisher("missing", JMissing), JMissing, JMissing, JMissing)
\* "publisher": {}
NamelessReview ==
    Review(Publisher("dict", JMissing), TextT, JStr(<< "u" >>), JStr(<< "r" >>))
\* "publisher": null
NullPublisherReview ==
    Review(Publisher("null", JMissing), TextT, JStr(<< "u" >>), JStr(<< "r" >>))
\* "title": null
NullTitleReview ==
    Review(Publisher("dict", JStr(<< "p" >>)), JNone, JStr(<< "u" >>), JStr(<< "r" >>))

ReviewPool ==
    { FullReview, BareReview, NamelessReview, NullPublisherReview, NullTitleReview }

\* the values of "claimReview": the key missing, null, or a list of reviews
ReviewListings ==
    { Listing("missing", <<>>), Listing("null", <<>>) }
    \cup { Listing("list", q) : q \in SeqsUpTo(ReviewPool, MaxReviews) }

ClaimPool ==
    { ClaimObj(td[1], td[2], rv) :
         td \in { << TextT, TextD >>, << JMissing, JMissing >> },
         rv \in ReviewListings }

\* the values of "claims"
ClaimListings ==
    { Listing("missing", <<>>), Listing("null", <<>>) }
    \cup { Listing("list", q) : q \in SeqsUpTo(ClaimPool, MaxClaims) }

\* the responses enumerated for a direct call of search_fact_checks
SearchResponses ==
    { SearchResponse(500, Listing("missing", <<>>)) }
    \cup { SearchResponse(200, c) : c \in ClaimListings }

\* search_fact_checks(query) is called: the request is about to be sent
LookCall ==
    [pc |-> "get", resp |-> SearchResponse(0, Listing("missing", <<>>)),
     out |-> <<>>, exc |-> ""]

\* requests.get returns a response whose status is not 200: raise Exception
LookStatusError ==
    /\ look.pc = "get"
    /\ \E resp \in SearchResponses :
          /\ resp.status # 200
          /\ look' = [look EXCEPT !.resp = resp, !.pc = "raised", !.exc = "Exception"]
    /\ UNCHANGED << seg, rank, run, net >>

\* requests.get returns a 200: data = response.json(); results = []
LookRespond ==
    /\ look.pc = "get"
    /\ \E resp \in SearchResponses :
          /\ resp.status = 200
          /\ look' = [look EXCEPT !.resp = resp, !.pc = "loop"]
    /\ UNCHANGED << seg, rank, run, net >>

\* requests.get(FACTCHECK_ENDPOINT, params=params) is given no timeout: with
\* a collaborator that never answers the call never returns
LookHangs ==
    /\ look.pc = "get"
    /\ look' = [look EXCEPT !.pc = "waiting"]
    /\ UNCHANGED << seg, rank, run, net >>

\* the two loops and the return, or the exception one of them raises
LookNormalize ==
    /\ look.pc = "loop"
    /\ LET r == SearchFactChecks(look.resp)
       IN  look' = [look EXCEPT !.out = r.results,
                                !.pc = IF r.ok THEN "done" ELSE "raised",
                                !.exc = IF r.ok THEN "" ELSE "Exception"]
    /\ UNCHANGED << seg, rank, run, net >>

(***************************************************************************)
(* The extraction collaborator's text, and ast.literal_eval                *)
(***************************************************************************)
\* the text the collaborator returns: syntax says whether it is a Python
\* literal, value which
Lit(v) == [syntax |-> TRUE, value |-> v]
Malformed == [syntax |-> FALSE, value |-> JNone]

\* ast.literal_eval(claims): the value of any literal; ok = FALSE for the
\* ValueError or SyntaxError
LiteralEval(resp) == [ok |-> resp.syntax, value |-> resp.value]

\* for claim in v: the elements of a list, the characters of a str, the keys of
\* a dict; ok = FALSE for the TypeError
PyIter(v) ==
    CASE v.t = "list" -> [ok |-> TRUE, items |-> v.items]
      [] v.t = "dict" -> [ok |-> TRUE, items |-> v.items]
      [] v.t = "str"  -> [ok |-> TRUE,
                          items |-> [i \in 1 .. Len(v.s) |-> JStr(<< v.s[i] >>)]]
      [] OTHER        -> [ok |-> FALSE, items |-> <<>>]

ClaimX == JStr(<< "x" >>)
ClaimY == JStr(<< "y" >>)
ClaimZ == JStr(<< "z" >>)

ExtractionResponses ==
    { Lit(JList(<<>>)),
      Lit(JList(<< ClaimX >>)),
      Lit(JList(<< ClaimX, ClaimY, ClaimZ >>)),
      Malformed,
      Lit(JStr(<< "x", "y" >>)),
      Lit(JNum(7)),
      Lit(JDict(<< ClaimX >>)),
      Lit(JList(<< JNum(7), ClaimX >>)) }

(***************************************************************************)
(* index: run.pc is the handler's position                                 *)
(***************************************************************************)
\* a variable of Python that is None (set = FALSE) or holds v
None(v) == [set |-> FALSE, v |-> v]
Some(v) == [set |-> TRUE, v |-> v]

\* except Exception, were it a bare except
CaughtByBareExcept(cls) == TRUE

\* except Exception as e: SystemExit is a BaseException and no Exception
CaughtByIndex(cls) == cls = "Exception"

\* the request arrives: the locals of index as first assigned
RunStart(method, form) ==
    [pc |-> "request", method |-> method, form |-> form, raw_input |-> <<>>,
     text |-> None(<<>>), w |-> <<>>, warnings |-> <<>>,
     factcheck |-> None(""), fact_checks |-> None(<<>>),
     claim_worthy |-> None(<<>>), claims |-> None(Malformed),
     claim_list |-> None(JNone), todo |-> <<>>, flashed |-> <<>>, exit |-> ""]

\* flash(str(e), "error") and the render_template that follows
Flash(r, msg) == [r EXCEPT !.flashed = Append(@, msg), !.pc = "rendered"]

\* a GET, or a POST with no user_input: the page is rendered at once
IndexRenderEmpty ==
    /\ run.pc = "request"
    /\ run.method = "GET" \/ run.form = <<>>
    /\ run' = [run EXCEPT !.pc = "rendered"]
    /\ UNCHANGED << seg, rank, net, look >>

\* process_input(raw_input), of the processor module: the text acquired for
\* the input (a pasted text is its own text) with the warnings of the
\* acquisition, or ok = FALSE for the exception of an acquisition that fails
ProcessInput(raw_input) ==
    { [ok |-> TRUE, text |-> raw_input, w |-> w] : w \in { <<>>, << "skipped" >> } }
    \cup { [ok |-> FALSE, text |-> <<>>, w |-> <<>>] }

\* extracted_text, _, w = process_input(raw_input); text = extracted_text
IndexAcquire ==
    /\ run.pc = "request"
    /\ run.method = "POST" /\ run.form # <<>>
    /\ \E got \in ProcessInput(run.form) :
          /\ got.ok
          /\ run' = [run EXCEPT !.raw_input = run.form, !.text = Some(got.text),
                                !.w = got.w, !.pc = "assess"]
    /\ UNCHANGED << seg, rank, net, look >>

\* process_input raises
IndexAcquireFails ==
    /\ run.pc = "request"
    /\ run.method = "POST" /\ run.form # <<>>
    /\ \E got \in ProcessInput(run.form) :
          /\ ~got.ok
          /\ run' = Flash([run EXCEPT !.raw_input = run.form], "process_input")
    /\ UNCHANGED << seg, rank, net, look >>

\* factcheck = json.loads(fact_check(text)), the collaborator's text being a
\* JSON document; then top_checkworthy_sentences(text, api_key=None, top_k=3)
\* is called
IndexAssess ==
    /\ run.pc = "assess"
    /\ net' = [net EXCEPT !.assess = @ + 1]
    /\ run' = [run EXCEPT !.factcheck = Some("verdict"), !.pc = "rank1"]
    /\ rank' = RankCall("index", rank.hasKey, run.text.v, 3, rank.posts)
    /\ UNCHANGED << seg, look >>

\* the assessment collaborator fails, or json.loads rejects its text
IndexAssessFails ==
    /\ run.pc = "assess"
    /\ net' = [net EXCEPT !.assess = @ + 1]
    /\ run' = Flash(run, "fact_check")
    /\ UNCHANGED << seg, rank, look >>

\* claim_worthy = the list returned; extract_claims(text) is entered, and
\* check_worth_paragraph calls top_checkworthy_sentences(paragraph, None, 3)
IndexRanked ==
    /\ run.pc = "rank1"
    /\ rank.pc = "done"
    /\ run' = [run EXCEPT !.claim_worthy = Some(rank.out), !.pc = "rank2"]
    /\ rank' = RankCall("index", rank.hasKey, run.text.v, 3, rank.posts)
    /\ UNCHANGED << seg, net, look >>

\* either call of top_checkworthy_sentences raises: the exception is caught
\* by except Exception, or leaves index
IndexRankRaises ==
    /\ run.pc \in { "rank1", "rank2" }
    /\ rank.pc = "exit"
    /\ run' = IF CaughtByIndex(rank.exc) THEN Flash(run, rank.exit)
              ELSE [run EXCEPT !.pc = "escaped", !.exit = rank.exit]
    /\ rank' = [rank EXCEPT !.pc = "raised"]
    /\ UNCHANGED << seg, net, look >>

\* [sent for sent, _ in top_results]
SentencesOf(top_results) == [i \in 1 .. Len(top_results) |-> top_results[i].sent]

\* build_prompt_to_extract_Claims, of the llm_wrapper module: one instruction
\* of the sentences, in their order
BuildPrompt(sentences) == sentences

\* the rest of extract_claims: the prompt built of the sentences is sent and
\* the collaborator's text returned; claim_list = ast.literal_eval(claims);
\* the for loop is entered
IndexExtract ==
    /\ run.pc = "rank2"
    /\ rank.pc = "done"
    /\ net' = [net EXCEPT !.extract = Append(@, BuildPrompt(SentencesOf(rank.out)))]
    /\ \E resp \in ExtractionResponses :
          LET ev == LiteralEval(resp)
              it == PyIter(ev.value)
              r1 == [run EXCEPT !.claims = Some(resp)]
              r2 == [r1 EXCEPT !.claim_list = Some(ev.value)]
          IN  run' = IF ~ev.ok THEN Flash(r1, "literal_eval")
                     ELSE IF ~it.ok THEN Flash(r2, "not iterable")
                     ELSE [r2 EXCEPT !.todo = it.items, !.pc = "loop"]
    /\ rank' = [rank EXCEPT !.pc = "returned"]
    /\ UNCHANGED << seg, look >>

\* one pass of the loop: fact_checks = search_fact_checks(claim)
IndexSearch ==
    /\ run.pc = "loop"
    /\ run.todo # <<>>
    /\ \E resp \in IndexSearchResponses :
          LET r == SearchFactChecks(resp)
          IN  /\ net' = [net EXCEPT !.search =
                            Append(@, [query |-> Head(run.todo), ok |-> r.ok,
                                       results |-> r.results])]
              /\ run' = IF r.ok
                        THEN [run EXCEPT !.fact_checks = Some(r.results),
                                         !.todo = Tail(@)]
                        ELSE Flash(run, "search_fact_checks")
    /\ UNCHANGED << seg, rank, look >>

\* one pass of the loop whose search_fact_checks(claim) never returns: its
\* requests.get has no timeout and the collaborator never answers
IndexSearchHangs ==
    /\ run.pc = "loop"
    /\ run.todo # <<>>
    /\ net' = [net EXCEPT !.pending = Append(@, Head(run.todo))]
    /\ run' = [run EXCEPT !.pc = "waiting"]
    /\ UNCHANGED << seg, rank, look >>

\* the loop ends: warnings = w, and the page is rendered
IndexFinish ==
    /\ run.pc = "loop"
    /\ run.todo = <<>>
    /\ run' = [run EXCEPT !.warnings = run.w, !.pc = "rendered"]
    /\ UNCHANGED << seg, rank, net, look >>

(***************************************************************************)
(* SpecSeg: split_into_sentences on every text up to MaxTextLen            *)
(* SpecRank: top_checkworthy_sentences called directly                     *)
(***************************************************************************)
RankTexts == { <<>>, << "a", "!" >> }

RankIdle == [RankCall("none", FALSE, <<>>, 0, 0) EXCEPT !.pc = "idle"]
SegIdle == [SegCall(<<>>) EXCEPT !.pc = "idle"]
RunIdle == [pc |-> "idle"]
\* pending: the queries sent to the search collaborator and never answered
NetIdle == [assess |-> 0, extract |-> <<>>, search |-> <<>>, pending |-> <<>>]
LookIdle == [LookCall EXCEPT !.pc = "idle"]

SegInit ==
    SegStart /\ rank = RankIdle /\ run = RunIdle /\ net = NetIdle /\ look = LookIdle

SegNext == SegStrip \/ SegTokenize \/ SegFallback \/ SegNormalize

SpecSeg == SegInit /\ [][SegNext]_vars

RankInit ==
    /\ seg = SegIdle
    /\ run = RunIdle
    /\ net = NetIdle
    /\ look = LookIdle
    /\ rank \in { RankCall("direct", k, t, n, 0) :
                     k \in BOOLEAN, t \in RankTexts, n \in -1 .. MaxTopK }

RankNext ==
    RankNoKey \/ RankSplit \/ RankHttpError \/ RankTimeout \/ RankRespond \/ RankSelect

SpecRank == RankInit /\ [][RankNext]_vars

(***************************************************************************)
(* SpecLook: search_fact_checks called directly                            *)
(***************************************************************************)
LookInit ==
    /\ seg = SegIdle
    /\ rank = RankIdle
    /\ run = RunIdle
    /\ net = NetIdle
    /\ look = LookCall

LookNext == LookStatusError \/ LookRespond \/ LookHangs \/ LookNormalize

SpecLook == LookInit /\ [][LookNext]_vars

(***************************************************************************)
(* Spec: one request handled by index                                      *)
(***************************************************************************)
Forms == { <<>>, << " " >>, << "a", "!" >> }

Init ==
    /\ seg = SegIdle
    /\ net = NetIdle
    /\ look = LookIdle
    /\ rank \in { [RankIdle EXCEPT !.hasKey = k] : k \in BOOLEAN }
    /\ run \in { RunStart(m, f) : m \in { "GET", "POST" }, f \in Forms }

Next ==
    \/ IndexRenderEmpty \/ IndexAcquire \/ IndexAcquireFails
    \/ IndexAssess \/ IndexAssessFails
    \/ RankNoKey \/ RankSplit \/ RankHttpError \/ RankTimeout \/ RankRespond
    \/ RankSelect
    \/ IndexRanked \/ IndexRankRaises \/ IndexExtract \/ IndexSearch
    \/ IndexSearchHangs \/ IndexFinish

Spec == Init /\ [][Next]_vars

\* the handler runs on: a step that can be taken is taken
SpecLive == Spec /\ WF_vars(Next)

(***************************************************************************)
(* Properties of split_into_sentences (SpecSeg)                            *)
(***************************************************************************)
\* s without its whitespace
NonWs(s) == SelectSeq(s, LAMBDA c : c \notin WS)

\* non-empty, no whitespace at either end, none repeated inside, a final '.'
WellFormedSentence(s) ==
    /\ s # <<>>
    /\ s[1] \notin WS
    /\ s[Len(s)] = "."
    /\ \A i \in 1 .. Len(s) - 1 : ~(s[i] \in WS /\ s[i + 1] \in WS)
    /\ \A i \in 1 .. Len(s) : s[i] \in WS => s[i] = " "

\* the units that are not empty after normalisation, in order
KeptUnits(units) == SelectSeq(units, LAMBDA u : NonWs(u) # <<>>)

\* c with a final '.', a final '!' or '?' rewritten to it
Terminated(c) ==
    IF c[Len(c)] \in Delims THEN SubSeq(c, 1, Len(c) - 1) \o << "." >>
    ELSE c \o << "." >>

RECURSIVE Concat(_)
Concat(seqs) == IF seqs = <<>> THEN <<>> ELSE Head(seqs) \o Concat(Tail(seqs))

Max0(k) == IF k > 0 THEN k ELSE 0
Min(a, b) == IF a < b THEN a ELSE b

\* the thresholds a caller could ask for, in tenths
Taus == 0 .. 10

WithScore(q, v) == SelectSeq(q, LAMBDA x : x.score = v)
IsPrefix(a, b) == Len(a) <= Len(b) /\ a = SubSeq(b, 1, Len(a))

\* C8: the ranked list is sorted non-increasing by score; the sentences of one
\* score are in the order the scored sequence has them; the list is the first
\* top_k of that order: nothing left out has a higher score than one kept.
C8_SortedStable ==
    rank.pc = "done" =>
        LET out == rank.out
            q   == FilterWorthy(rank.scored)
        IN  /\ \A i \in 1 .. Len(out) - 1 : out[i].score >= out[i + 1].score
            /\ \A v \in { q[i].score : i \in 1 .. Len(q) } :
                  /\ IsPrefix(WithScore(out, v), WithScore(q, v))
                  /\ (out # <<>> /\ v > out[Len(out)].score)
                        => WithScore(out, v) = WithScore(q, v)
            /\ Len(out) = Min(Max0(rank.top_k), Len(q))

\* scored 0.7, 0.7, 0.9 ranks the 0.9 first and keeps the tie in order
C8_Witness ==
    /\ rank.pc = "done"
    /\ rank.scored = << Scored(JStr(SA), 7), Scored(JStr(SB), 7), Scored(JStr(SC), 9) >>
    /\ rank.out = << Scored(JStr(SC), 9), Scored(JStr(SA), 7), Scored(JStr(SB), 7) >>

\* C10: every sentence of the ranked list has a non-empty text ending in '.'
\* and a score in [0, 1].
C10_SentenceInvariant ==
    rank.pc = "done" =>
        \A i \in 1 .. Len(rank.out) :
           /\ rank.out[i].sent.t = "str"
           /\ rank.out[i].sent.s # <<>>
           /\ EndsWith(rank.out[i].sent.s, ".")
           /\ rank.out[i].score \in 0 .. 10

\* an element gives a sentence and a score: an object with a string under one
\* of the sentence keys and a number under one of the score keys
PairItem(item) ==
    /\ item.isdict
    /\ item.sentence.t = "str" \/ item.text.t = "str"
    /\ IsNumber(item.score) \/ IsNumber(item.checkworthiness) \/ IsNumber(item.value)

\* the body is a sequence of pairs (bare, or under "results"), or a mapping
\* from sentence text to a number
RecognizedShape(data) ==
    CASE data.shape = "list" ->
           \A i \in 1 .. Len(data.items) : PairItem(data.items[i])
      [] data.shape = "dict" ->
           IF HasResultsList(data.pairs)
           THEN \A i \in 1 .. Len(ResultsOf(data.pairs)) :
                   PairItem(ResultsOf(data.pairs)[i])
           ELSE \A i \in 1 .. Len(data.pairs) : IsNumber(data.pairs[i][2])
      [] OTHER -> FALSE

\* the scoring collaborator has answered the request with a body
Answered ==
    /\ rank.posts >= 1
    /\ rank.pc \in { "select", "done", "exit" }
    /\ rank.exit \notin { MsgHttp, MsgRequest }

\* C12: once the scoring collaborator has answered with a body of an
\* unrecognized shape, the scorer has failed with its format error: it has
\* not gone on to filter and return a scored list made of that body.
C12_UnrecognizedShapeFails ==
    (Answered /\ ~RecognizedShape(rank.data)) =>
        /\ rank.pc = "exit"
        /\ rank.exit = MsgFormat

\* a sequence of {"sentence": s, "score": n} objects: the sentences non-empty
\* strings, no two the same, the scores numbers
ProperPairs(items) ==
    /\ \A i \in 1 .. Len(items) :
          /\ items[i] = Obj(items[i].sentence, items[i].score)
          /\ items[i].sentence.t = "str" /\ items[i].sentence.s # <<>>
          /\ IsNumber(items[i].score)
    /\ \A i, j \in 1 .. Len(items) :
          items[i].sentence = items[j].sentence => i = j

\* the same pairs, as a mapping from sentence text to score
AsMapping(items) ==
    DataDict([i \in 1 .. Len(items) |-> << items[i].sentence.s, items[i].score >>])

\* C16: when the collaborator's body was a sequence of {sentence, score}
\* objects (distinct non-empty sentences, numeric scores, 0 among them), the
\* scored list score_sentences made of it is the list it makes of the same
\* pairs sent as a mapping from sentence text to score.
C16_ShapesNormalizeAlike ==
    (Answered /\ rank.data.shape = "list" /\ ProperPairs(rank.data.items)) =>
        rank.scored = ScoreData(AsMapping(rank.data.items)).results

(***************************************************************************)
(* Properties of index (Spec)                                              *)
(***************************************************************************)
\* index is over: the page was rendered, or an exception left the handler
Ended == run.pc \in { "rendered", "escaped" }

\* the collaborator's text is a list whose elements are all strings
IsStringList(v) ==
    v.t = "list" /\ \A i \in 1 .. Len(v.items) : v.items[i].t = "str"
WellFormedClaims == run.claims.set /\ run.claims.v.syntax /\ IsStringList(run.claims.v.value)

\* the claims extracted, once the text was a list of strings
ClaimList == run.claim_list.v.items

\* the records the rendered page holds for a claim: index hands the template
\* one list, fact_checks, whichever the claim
ReportedFor(claim) == run.fact_checks.v

\* a value of Python that is None or empty
NoneOrEmpty(x) == ~x.set \/ x.v = <<>>

\* C1: after a run that extracted [c1..cn] and searched each, the report holds
\* for every ci the records search_fact_checks(ci) returned, [] included (for
\* n = 0 a report with no fact checks at all is taken for the empty mapping).
C1_EveryClaimItsRecords ==
    (run.pc = "rendered" /\ run.flashed = <<>> /\ WellFormedClaims) =>
        /\ run.fact_checks.set \/ ClaimList = <<>>
        /\ Len(net.search) = Len(ClaimList)
        /\ \A i \in 1 .. Len(ClaimList) :
              /\ net.search[i].query = ClaimList[i]
              /\ ReportedFor(ClaimList[i]) = net.search[i].results

\* C2: when search_fact_checks failed for a claim, the run still ends with the
\* page rendered, a warning recorded, the ranked sentences and the assessment
\* in it, and every claim of the list searched, each once and in order.
C2_SearchFailureIsLocal ==
    (Ended /\ WellFormedClaims
           /\ \E i \in 1 .. Len(net.search) : ~net.search[i].ok) =>
        /\ run.pc = "rendered"
        /\ run.warnings # <<>> \/ run.flashed # <<>>
        /\ run.claim_worthy.set /\ run.factcheck.set
        /\ Len(net.search) = Len(ClaimList)
        /\ \A i \in 1 .. Len(ClaimList) : net.search[i].query = ClaimList[i]

\* C3: once the scoring collaborator has answered with a non-success status,
\* no page is rendered: the run ends with the scorer's error leaving index,
\* its message naming the scoring service.
C3_ScoringFailureNoReport ==
    rank.exit = MsgHttp =>
        /\ run.pc \in { "rank1", "rank2", "escaped" }
        /\ run.pc = "escaped" => run.exit = MsgHttp

\* the second scoring request failed, the assessment and the ranked sentences
\* of the first being computed already
C3_Witness ==
    /\ run.pc = "escaped"
    /\ run.exit = MsgHttp
    /\ rank.posts = 2
    /\ run.factcheck.set
    /\ run.claim_worthy.set /\ run.claim_worthy.v # <<>>

\* C4: when the extraction collaborator's text is not a well-formed list of
\* strings, no search is issued for any part of it and the run ends with an
\* error reported.
C4_MalformedClaimsRejected ==
    (run.claims.set /\ ~WellFormedClaims) =>
        /\ net.search = <<>>
        /\ run.pc = "rendered" => run.flashed # <<>>

\* C5: for an empty or whitespace-only text no collaborator is invoked, no
\* failure is raised, and the page rendered holds no ranked sentence, no claim
\* and no fact check.
C5_EmptyTextNoCollaborator ==
    (run.text.set /\ Strip(run.text.v) = <<>>) =>
        /\ net.assess = 0 /\ net.extract = <<>> /\ net.search = <<>>
        /\ rank.posts = 0
        /\ run.pc # "escaped"
        /\ run.pc = "rendered" =>
              /\ run.flashed = <<>>
              /\ NoneOrEmpty(run.claim_worthy)
              /\ NoneOrEmpty(run.fact_checks)
              /\ ~run.claim_list.set \/ run.claim_list.v = JList(<<>>)

\* C6: no prompt built of an empty list of ranked sentences is sent to the
\* text-generation collaborator.
C6_NoPromptOfNothing ==
    \A i \in 1 .. Len(net.extract) : net.extract[i] # <<>>

\* no claim twice
Distinct(q) == \A i, j \in 1 .. Len(q) : q[i] = q[j] => i = j

\* the lookup made for a claim: the search logged with the claim as its query
LookupFor(claim) ==
    CHOOSE j \in 1 .. Len(net.search) : net.search[j].query = claim

\* C13: the lookups of index are issued by a sequential loop, one in flight,
\* so they complete in the order issued; for that completion order, after a
\* run that looked up two or more distinct claims without error, the report
\* lists the claims in extraction order and pairs each claim with the records
\* of its own lookup, never with those of another claim's.
C13_OwnLookupInOrder ==
    (run.pc = "rendered" /\ run.flashed = <<>> /\ WellFormedClaims
                         /\ Len(ClaimList) >= 2 /\ Distinct(ClaimList)) =>
        /\ Len(net.search) = Len(ClaimList)
        /\ \A i \in 1 .. Len(ClaimList) : net.search[i].query = ClaimList[i]
        /\ run.fact_checks.set
        /\ \A i \in 1 .. Len(ClaimList) :
              ReportedFor(ClaimList[i])
                 = net.search[LookupFor(ClaimList[i])].results

\* the sentence list handed to the claim extractor is the one reported
SameListExtracted ==
    \A i \in 1 .. Len(net.extract) :
       /\ run.claim_worthy.set
       /\ net.extract[i] = BuildPrompt(SentencesOf(run.claim_worthy.v))

\* C15: within one run the scoring collaborator is sent at most one request,
\* and the sentences the extraction prompt is built of are the texts of the
\* ranked list the run reports, in its order.
C15_ScoredOnce ==
    /\ rank.posts <= 1
    /\ SameListExtracted

\* C14: every external call of a run is bounded by a timeout, so every run
\* ends, with the page rendered or with a failure, whatever the collaborators
\* do: no lookup waits for ever.
C14_RunTerminates == <>Ended

(***************************************************************************)
(* Properties of search_fact_checks (SpecLook)                             *)
(***************************************************************************)
\* the list under a key, none for a key that is missing
ItemsOf(listing) == IF listing.t = "list" THEN listing.items ELSE <<>>

\* the (claim, review) pairs of a list of claims: claims in order, and the
\* reviews of a claim in order
RECURSIVE ReviewPairs(_)
ReviewPairs(claims) ==
    IF claims = <<>> THEN <<>>
    ELSE LET c  == Head(claims)
             rs == ItemsOf(c.claimReview)
         IN  [i \in 1 .. Len(rs) |-> [claim |-> c, review |-> rs[i]]]
             \o ReviewPairs(Tail(claims))

\* the string of a field, its sentinel standing for a field without one
OrSentinel(v, sentinel) == IF v.t = "str" THEN v ELSE sentinel

\* the record the contract asks for one review of one claim
ExpectedRecord(p) ==
    [claim     |-> OrSentinel(p.claim.text, NoClaimText),
     date      |-> OrSentinel(p.claim.claimDate, UnknownDate),
     publisher |-> IF p.review.publisher.t = "dict"
                   THEN OrSentinel(p.review.publisher.name, UnknownPublisher)
                   ELSE UnknownPublisher,
     title     |-> OrSentinel(p.review.title, NoTitle),
     url       |-> OrSentinel(p.review.url, NoURL),
     rating    |-> OrSentinel(p.review.textualRating, NoRating)]

\* the response has a null nowhere but, at most, as the publisher of a review
NullOnlyAsPublisher(resp) ==
    /\ resp.claims.t # "null"
    /\ \A i \in 1 .. Len(resp.claims.items) :
          LET c == resp.claims.items[i]
          IN  /\ c.claimReview.t # "null"
              /\ \A j \in 1 .. Len(c.claimReview.items) :
                    c.claimReview.items[j].title.t # "null"

\* C11: for a response of status 200 (its only nulls, if any, publishers)
\* search_fact_checks returns, and returns one record per review, claims in
\* order and reviews in order within a claim; each record has the six fields
\* as strings, the sentinel standing for a field the response lacks and for a
\* publisher that is missing, null or without a name; no claims give [].
C11_OneRecordPerReview ==
    (look.pc \in { "done", "raised" } /\ look.resp.status = 200
                                     /\ NullOnlyAsPublisher(look.resp)) =>
        LET pairs == ReviewPairs(ItemsOf(look.resp.claims))
        IN  /\ look.pc = "done"
            /\ look.out = [k \in 1 .. Len(pairs) |-> ExpectedRecord(pairs[k])]

====
